---- MODULE Spec2Model ----
(***************************************************************************)
(* A model of the diamant CLI: the component registry and its dependency   *)
(* resolver, the diamant.json manifest helpers, and the add / remove /     *)
(* update commands acting on the manifest and the components directory.    *)
(***************************************************************************)
EXTENDS Integers, Sequences, FiniteSets, TLC

VARIABLES
    registry,       \* the component registry the commands look ids up in
    diamantJson,    \* the manifest document diamant.json in the project root
    componentsDir,  \* the files of <cwd>/<aliases.components>, by file name
    projectType,    \* what detectProjectType reads from package.json
    last            \* the last call made: its inputs and what it reported

vars == <<registry, diamantJson, componentsDir, projectType, last>>

(***************************************************************************)
(* Bounds of the model.                                                    *)
(***************************************************************************)
\* longest list of names handed to the registry functions
MaxNames == 3
\* longest list of component arguments on a command line
MaxArgs == 1

(***************************************************************************)
(* Small helpers over sequences (JavaScript arrays).                       *)
(***************************************************************************)
includes(seq, x) == \E i \in 1..Len(seq) : seq[i] = x

Range(seq) == {seq[i] : i \in 1..Len(seq)}

Count(seq, x) == Cardinality({i \in 1..Len(seq) : seq[i] = x})

RECURSIVE SeqsUpTo(_, _)
SeqsUpTo(S, n) ==
    IF n = 0 THEN {<<>>}
    ELSE LET shorter == SeqsUpTo(S, n - 1)
         IN shorter \cup {Append(s, x) : s \in {t \in shorter : Len(t) = n - 1}, x \in S}

(***************************************************************************)
(* Strings.  The names that occur in the model, String.prototype           *)
(* .toLowerCase on them, and their order by UTF-16 code units (the order   *)
(* Array.prototype.sort uses without a comparator).                        *)
(***************************************************************************)
toLowerCase(s) ==
    CASE s = "Button" -> "button"
      [] s = "CAROUSEL" -> "carousel"
      [] s = "Carousel" -> "carousel"
      [] OTHER -> s

\* "B" < "C" < "_" < "a".."z", and "A" < "a", in UTF-16 code units
CodeUnitOrder ==
    <<"Button", "CAROUSEL", "Carousel", "__proto__", "alertdialog", "button", "carousel",
      "combobox", "constructor", "dialog", "nope">>

CodeUnitRank(s) == CHOOSE i \in 1..Len(CodeUnitOrder) : CodeUnitOrder[i] = s

CodeUnitLess(a, b) == CodeUnitRank(a) < CodeUnitRank(b)

\* Array.prototype.sort() with the default comparison (stable insertion)
RECURSIVE sortInsert(_, _)
sortInsert(sorted, x) ==
    IF Len(sorted) = 0 THEN <<x>>
    ELSE IF CodeUnitLess(x, sorted[Len(sorted)])
         THEN Append(sortInsert(SubSeq(sorted, 1, Len(sorted) - 1), x), sorted[Len(sorted)])
         ELSE Append(sorted, x)

RECURSIVE sort(_)
sort(seq) ==
    IF Len(seq) = 0 THEN <<>>
    ELSE sortInsert(sort(SubSeq(seq, 1, Len(seq) - 1)), seq[Len(seq)])

IsSorted(seq) == \A i \in 1..(Len(seq) - 1) : CodeUnitLess(seq[i], seq[i + 1])

(***************************************************************************)
(* The registry (utils/registry.ts).  An entry keeps the fields of         *)
(* ComponentDefinition; the order of the entries is the key order of the   *)
(* object literal.  Four of the entries are modelled.                      *)
(***************************************************************************)
ComponentDefinition(id, name, dependencies, internalDependencies, files) ==
    [id |-> id, name |-> name, dependencies |-> dependencies,
     internalDependencies |-> internalDependencies, files |-> files]

AlertDialogDef ==
    ComponentDefinition("alertdialog", "AlertDialog", <<"lucide-react">>, <<"button">>,
                        <<"AlertDialog.tsx">>)
ButtonDef ==
    ComponentDefinition("button", "Button", <<>>, <<>>, <<"Button.tsx">>)
CarouselDef ==
    ComponentDefinition("carousel", "Carousel", <<"lucide-react">>, <<"button">>,
                        <<"Carousel.tsx">>)
DialogDef ==
    ComponentDefinition("dialog", "Dialog", <<"lucide-react">>, <<>>, <<"Dialog.tsx">>)

\* the registry of the resolver checks
Registry == <<AlertDialogDef, ButtonDef, CarouselDef, DialogDef>>

\* the registry of the command checks
CommandRegistry == <<ButtonDef, CarouselDef, DialogDef>>

\* ComponentDefinition.files is a string[]: a registry with a two-file entry
ComboboxDef ==
    ComponentDefinition("combobox", "Combobox", <<>>, <<"button">>,
                        <<"Combobox.tsx", "ComboboxItem.tsx">>)

MultiFileRegistry == <<ButtonDef, ComboboxDef>>

\* the same with a third component that depends on nothing
CopyRegistry == <<ButtonDef, ComboboxDef, DialogDef>>

\* the lowercase property names a plain object inherits from Object.prototype
ObjectPrototypeKeys == {"constructor", "__proto__"}

\* registry[key]: an own entry, an inherited (truthy) value without the
\* fields of a ComponentDefinition, or undefined
Lookup(reg, key) ==
    IF \E i \in 1..Len(reg) : reg[i].id = key
    THEN [kind |-> "definition", def |-> reg[CHOOSE i \in 1..Len(reg) : reg[i].id = key]]
    ELSE IF key \in ObjectPrototypeKeys
         THEN [kind |-> "inherited", def |-> ComponentDefinition(key, "", <<>>, <<>>, <<>>)]
         ELSE [kind |-> "undefined", def |-> ComponentDefinition(key, "", <<>>, <<>>, <<>>)]

Truthy(lookup) == lookup.kind # "undefined"

RegistryIds(reg) == {reg[i].id : i \in 1..Len(reg)}

getAllComponentNames(reg) == [i \in 1..Len(reg) |-> reg[i].id]

\* the while loop of resolveComponentDependencies; resolved is the Set in
\* insertion order, toProcess the stack
RECURSIVE resolveLoop(_, _, _, _)
resolveLoop(reg, resolved, toProcess, warned) ==
    IF Len(toProcess) = 0
    THEN [threw |-> FALSE, value |-> resolved, warned |-> warned]
    ELSE LET name == toProcess[Len(toProcess)]
             rest == SubSeq(toProcess, 1, Len(toProcess) - 1)
             normalizedName == toLowerCase(name)
             component == Lookup(reg, normalizedName)
             added == Append(resolved, normalizedName)
         IN IF includes(resolved, normalizedName)
            THEN resolveLoop(reg, resolved, rest, warned)
            ELSE IF ~Truthy(component)
            THEN resolveLoop(reg, resolved, rest, Append(warned, name))
            ELSE IF component.kind = "inherited"
            \* for (const dep of undefined): TypeError
            THEN [threw |-> TRUE, value |-> <<>>, warned |-> warned]
            ELSE resolveLoop(reg, added,
                             rest \o SelectSeq(component.def.internalDependencies,
                                               LAMBDA dep : ~includes(added, dep)),
                             warned)

resolveComponentDependencies(reg, componentNames) ==
    resolveLoop(reg, <<>>, componentNames, <<>>)

\* Set.prototype.add for each element of list, the Set kept in insertion order
RECURSIVE setAddAll(_, _)
setAddAll(set, list) ==
    IF Len(list) = 0 THEN set
    ELSE setAddAll(IF includes(set, Head(list)) THEN set ELSE Append(set, Head(list)),
                   Tail(list))

\* the for loop of getNpmDependencies; deps is the Set in insertion order
RECURSIVE npmLoop(_, _, _, _)
npmLoop(reg, componentNames, i, deps) ==
    IF i > Len(componentNames)
    THEN [threw |-> FALSE, value |-> deps]
    ELSE LET component == Lookup(reg, toLowerCase(componentNames[i]))
         IN IF ~Truthy(component)
            THEN npmLoop(reg, componentNames, i + 1, deps)
            ELSE IF component.kind = "inherited"
            \* for (const dep of undefined): TypeError
            THEN [threw |-> TRUE, value |-> <<>>]
            ELSE npmLoop(reg, componentNames, i + 1, setAddAll(deps, component.def.dependencies))

getNpmDependencies(reg, componentNames) == npmLoop(reg, componentNames, 1, <<>>)

(***************************************************************************)
(* The manifest document (utils/config.ts).  state is "missing" (no file), *)
(* "invalid" (a file JSON.parse rejects) or "json"; a parsed document may  *)
(* lack the installedComponents field.                                     *)
(***************************************************************************)
DEFAULT_CONFIG ==
    [state |-> "json",
     typescript |-> TRUE,
     aliases |-> [components |-> <<"src", "components", "ui">>, utils |-> <<"src", "lib">>],
     hasInstalledComponents |-> TRUE,
     installedComponents |-> <<>>]

getDefaultConfig == DEFAULT_CONFIG

configExists(doc) == doc.state # "missing"

\* readConfig without the catch around JSON.parse
readConfigTrustsInvalid(doc) == [null |-> doc.state = "missing", config |-> doc]

\* null for a missing document and for one that does not parse
readConfig(doc) == [null |-> doc.state # "json", config |-> doc]

\* writeConfig replaces the whole document
writeConfig(config) == [config EXCEPT !.state = "json"]

\* addInstalledComponent without the includes test
addInstalledComponentAlwaysPush(doc, componentName) ==
    IF readConfig(doc).null THEN [doc |-> doc, writes |-> 0, threw |-> FALSE]
    ELSE [doc |-> writeConfig([doc EXCEPT !.installedComponents =
                                  sort(Append(doc.installedComponents, componentName))]),
          writes |-> 1, threw |-> FALSE]

\* addInstalledComponent without the sort
addInstalledComponentNoSort(doc, componentName) ==
    IF readConfig(doc).null \/ includes(doc.installedComponents, componentName)
    THEN [doc |-> doc, writes |-> 0, threw |-> FALSE]
    ELSE [doc |-> writeConfig([doc EXCEPT !.installedComponents =
                                  Append(doc.installedComponents, componentName)]),
          writes |-> 1, threw |-> FALSE]

\* the document after the call, the number of writeConfig calls made, and
\* whether the call threw (installedComponents undefined)
addInstalledComponent(doc, componentName) ==
    LET read == readConfig(doc)
        config == read.config
    IN IF read.null
       THEN [doc |-> doc, writes |-> 0, threw |-> FALSE]
       ELSE IF ~config.hasInstalledComponents
       THEN [doc |-> doc, writes |-> 0, threw |-> TRUE]
       ELSE IF ~includes(config.installedComponents, componentName)
       THEN [doc |-> writeConfig([config EXCEPT !.installedComponents =
                                     sort(Append(config.installedComponents, componentName))]),
             writes |-> 1, threw |-> FALSE]
       ELSE [doc |-> doc, writes |-> 0, threw |-> FALSE]

\* Array.prototype.indexOf, 0 standing for -1
indexOf(seq, x) ==
    IF includes(seq, x) THEN CHOOSE i \in 1..Len(seq) :
                                seq[i] = x /\ \A j \in 1..(i - 1) : seq[j] # x
    ELSE 0

\* Array.prototype.splice(index): without the delete count, the rest is removed
spliceToEnd(seq, index) == SubSeq(seq, 1, index - 1)

\* Array.prototype.splice(index, 1)
splice(seq, index) == SubSeq(seq, 1, index - 1) \o SubSeq(seq, index + 1, Len(seq))

removeInstalledComponent(doc, componentName) ==
    LET read == readConfig(doc)
        config == read.config
        index == indexOf(config.installedComponents, componentName)
    IN IF read.null
       THEN [doc |-> doc, writes |-> 0, threw |-> FALSE]
       ELSE IF ~config.hasInstalledComponents
       THEN [doc |-> doc, writes |-> 0, threw |-> TRUE]
       ELSE IF index # 0
       THEN [doc |-> writeConfig([config EXCEPT !.installedComponents =
                                     splice(config.installedComponents, index)]),
             writes |-> 1, threw |-> FALSE]
       ELSE [doc |-> doc, writes |-> 0, threw |-> FALSE]

(***************************************************************************)
(* Files.  A file's content is its sequence of lines; a line keeps the     *)
(* module specifier of its from-clause apart, since that is the one part   *)
(* the commands rewrite.                                                   *)
(***************************************************************************)
Line(code, from) == [code |-> code, from |-> from]

BlankLine == Line("", "")

\* the templates under templates/components, ending with a newline
Template(file) ==
    <<Line("import * as React", "react"),
      Line("import { cn }", "../../lib/utils"),
      Line(file, ""),
      BlankLine>>

Absent == [exists |-> FALSE, content |-> <<>>]

File(content) == [exists |-> TRUE, content |-> content]

FilesOf(reg) == UNION {Range(reg[i].files) : i \in 1..Len(reg)}

fileExists(dir, file) == dir[file].exists

\* writeFile appending to the file it finds
writeFileAppend(dir, file, content) ==
    [dir EXCEPT ![file] = File(dir[file].content \o content)]

\* utils/fs.ts writeFile and deleteFile
writeFile(dir, file, content) == [dir EXCEPT ![file] = File(content)]

deleteFile(dir, file) == IF fileExists(dir, file) THEN [dir EXCEPT ![file] = Absent] ELSE dir

\* Array.prototype.join("/")
RECURSIVE join(_)
join(parts) ==
    IF Len(parts) = 0 THEN ""
    ELSE IF Len(parts) = 1 THEN parts[1]
    ELSE parts[1] \o "/" \o join(Tail(parts))

\* String.prototype.repeat
RECURSIVE repeat(_, _)
repeat(str, n) == IF n <= 0 THEN "" ELSE str \o repeat(str, n - 1)

\* addUtilsImportPath without the "@/" alias
addUtilsImportPathNoAlias(ptype, config) ==
    IF ptype = "cra"
    THEN repeat("../", Len(config.aliases.components) - 1)
         \o join(Tail(config.aliases.utils)) \o "/utils"
    ELSE join(config.aliases.utils) \o "/utils"

\* the import path add.ts computes inline (paths are kept split at "/")
addUtilsImportPath(ptype, config) ==
    IF ptype = "cra"
    THEN LET componentsDepth == Len(config.aliases.components)
             utilsPathParts == config.aliases.utils
             upPath == repeat("../", componentsDepth - 1)
         IN upPath \o join(Tail(utilsPathParts)) \o "/utils"
    ELSE (IF Len(config.aliases.utils) > 1 /\ config.aliases.utils[1] = "src"
          THEN "@/" \o join(Tail(config.aliases.utils))
          ELSE join(config.aliases.utils)) \o "/utils"

\* getUtilsImportPath without the replacement of "src/" by "@/"
getUtilsImportPathNoAlias(ptype, componentsPath, utilsPath) ==
    IF ptype = "cra"
    THEN repeat("../", Len(componentsPath) - 1) \o join(Tail(utilsPath)) \o "/utils"
    ELSE join(utilsPath) \o "/utils"

\* getUtilsImportPath of update.ts and diff.ts
getUtilsImportPath(ptype, componentsPath, utilsPath) ==
    IF ptype = "cra"
    THEN LET componentsDepth == Len(componentsPath)
             utilsPathParts == utilsPath
             upPath == repeat("../", componentsDepth - 1)
         IN upPath \o join(Tail(utilsPathParts)) \o "/utils"
    ELSE (IF Len(utilsPath) > 1 /\ utilsPath[1] = "src"
          THEN "@/" \o join(Tail(utilsPath))
          ELSE join(utilsPath)) \o "/utils"

\* content.replace(/from\s+["']\.\.\/\.\.\/lib\/utils["']/g, `from "${utilsImportPath}"`)
replaceUtilsImport(content, utilsImportPath) ==
    [i \in 1..Len(content) |->
        IF content[i].from = "../../lib/utils"
        THEN Line(content[i].code, utilsImportPath)
        ELSE content[i]]

\* String.prototype.trim: blank lines at either end go
RECURSIVE trim(_)
trim(content) ==
    IF Len(content) = 0 THEN content
    ELSE IF content[1] = BlankLine THEN trim(Tail(content))
    ELSE IF content[Len(content)] = BlankLine THEN trim(SubSeq(content, 1, Len(content) - 1))
    ELSE content

(***************************************************************************)
(* The record of the last call.                                            *)
(***************************************************************************)
NoCall ==
    [cmd |-> "none", args |-> <<>>, procs |-> <<>>, yes |-> FALSE, overwrite |-> FALSE,
     asked |-> FALSE, answer |-> FALSE, resolved |-> <<>>, actionSet |-> <<>>,
     written |-> <<>>, deleted |-> <<>>, configWrites |-> 0, failed |-> <<>>,
     dependents |-> <<>>, warned |-> <<>>, notInstalled |-> <<>>, shown |-> <<>>,
     toProcess |-> <<>>, exit |-> "ok"]

\* the names given on command lines and to the registry functions
Names == {"button", "Carousel", "dialog", "nope", "constructor"}

ProjectTypes == {"cra", "nextjs"}

EmptyDir(reg) == [f \in FilesOf(reg) |-> Absent]

(***************************************************************************)
(* Calls of the registry functions on lists of names.                      *)
(***************************************************************************)
NameLists ==
    SeqsUpTo(Names \cup {"alertdialog", "carousel", "Button", "CAROUSEL", "__proto__"}, MaxNames)

\* the caller holds a list of names and has not called yet
InitRegistry ==
    /\ registry = Registry
    /\ diamantJson = getDefaultConfig
    /\ componentsDir = EmptyDir(Registry)
    /\ projectType = "nextjs"
    /\ \E componentNames \in NameLists :
          last = [NoCall EXCEPT !.cmd = "call", !.args = componentNames]

CallResolve ==
    LET r == resolveComponentDependencies(registry, last.args)
    IN /\ last.cmd = "call"
       /\ last' = [last EXCEPT !.cmd = "resolveComponentDependencies",
                               !.resolved = r.value,
                               !.warned = r.warned,
                               !.exit = IF r.threw THEN "throw" ELSE "ok"]
       /\ UNCHANGED <<registry, diamantJson, componentsDir, projectType>>

CallGetNpmDependencies ==
    LET r == getNpmDependencies(registry, last.args)
    IN /\ last.cmd = "call"
       /\ last' = [last EXCEPT !.cmd = "getNpmDependencies",
                               !.resolved = r.value,
                               !.exit = IF r.threw THEN "throw" ELSE "ok"]
       /\ UNCHANGED <<registry, diamantJson, componentsDir, projectType>>

NextRegistry == CallResolve \/ CallGetNpmDependencies

SpecRegistry == InitRegistry /\ [][NextRegistry]_vars

\* the ids reachable from a set of ids through internalDependencies
RECURSIVE Reachable(_, _)
Reachable(reg, ids) ==
    LET next == ids \cup UNION {Range(Lookup(reg, id).def.internalDependencies) : id \in ids}
    IN IF next = ids THEN ids ELSE Reachable(reg, next)

\* the requested names, lowercased, that are ids of the registry
KnownRequested(reg, componentNames) ==
    {toLowerCase(componentNames[i]) : i \in 1..Len(componentNames)} \cap RegistryIds(reg)

\* C1: for every list of requested names resolveComponentDependencies
\* returns exactly the lowercased requested names that are registry ids and
\* every id reachable from them through internalDependencies, and resolving
\* [carousel] yields exactly {carousel, button}.
C1_ResolveReturnsClosure ==
    last.cmd = "resolveComponentDependencies" =>
        /\ last.exit = "ok"
        /\ Range(last.resolved) = Reachable(registry, KnownRequested(registry, last.args))
        /\ last.args = <<"carousel">> => Range(last.resolved) = {"carousel", "button"}

\* C2: a requested string that is no registry id (a name of an inherited
\* property of the lookup table included) does not make
\* resolveComponentDependencies raise, is left out of the result, and the
\* known ids requested with it are still resolved in full.
C2_UnknownNameIsSkipped ==
    \A i \in 1..Len(last.args) :
        (/\ last.cmd = "resolveComponentDependencies"
         /\ toLowerCase(last.args[i]) \notin RegistryIds(registry))
        => /\ last.exit # "throw"
           /\ ~includes(last.resolved, last.args[i])
           /\ ~includes(last.resolved, toLowerCase(last.args[i]))
           /\ Reachable(registry, KnownRequested(registry, last.args)) \subseteq Range(last.resolved)

\* C3: for every list of component ids getNpmDependencies returns exactly
\* the union of the dependencies of the listed ids that are in the
\* registry, each package once; ids not in the registry contribute nothing.
C3_NpmDependenciesAreUnion ==
    last.cmd = "getNpmDependencies" =>
        /\ last.exit = "ok"
        /\ Range(last.resolved) =
              UNION {Range(Lookup(registry, id).def.dependencies) :
                        id \in KnownRequested(registry, last.args)}
        /\ \A d \in Range(last.resolved) : Count(last.resolved, d) = 1

(***************************************************************************)
(* resolveComponentDependencies one iteration of its while loop at a time: *)
(* last.resolved is the Set in insertion order, last.toProcess the stack.  *)
(***************************************************************************)
\* a registry with a cycle of two, a self-dependency, and a way into the cycle
CyclicRegistry ==
    <<ComponentDefinition("alertdialog", "AlertDialog", <<>>, <<"button">>,
                          <<"AlertDialog.tsx">>),
      ComponentDefinition("button", "Button", <<>>, <<"carousel">>, <<"Button.tsx">>),
      ComponentDefinition("carousel", "Carousel", <<>>, <<"button">>, <<"Carousel.tsx">>),
      ComponentDefinition("dialog", "Dialog", <<>>, <<"dialog">>, <<"Dialog.tsx">>)>>

\* the iteration that leaves a name it finds resolved on the stack
resolveStepKeepsVisited(reg, loop) ==
    LET name == loop.toProcess[Len(loop.toProcess)]
        rest == SubSeq(loop.toProcess, 1, Len(loop.toProcess) - 1)
        normalizedName == toLowerCase(name)
        component == Lookup(reg, normalizedName)
        added == Append(loop.resolved, normalizedName)
    IN IF includes(loop.resolved, normalizedName)
       THEN loop
       ELSE IF ~Truthy(component)
       THEN [loop EXCEPT !.toProcess = rest, !.warned = Append(@, name)]
       ELSE IF component.kind = "inherited"
       THEN [loop EXCEPT !.toProcess = rest, !.resolved = added, !.threw = TRUE]
       ELSE [loop EXCEPT !.resolved = added,
                         !.toProcess = rest \o SelectSeq(component.def.internalDependencies,
                                                         LAMBDA dep : ~includes(added, dep))]

\* the iteration that adds the name as given instead of normalizedName
resolveStepKeepsCase(reg, loop) ==
    LET name == loop.toProcess[Len(loop.toProcess)]
        rest == SubSeq(loop.toProcess, 1, Len(loop.toProcess) - 1)
        normalizedName == toLowerCase(name)
        component == Lookup(reg, normalizedName)
        added == Append(loop.resolved, name)
    IN IF includes(loop.resolved, normalizedName)
       THEN [loop EXCEPT !.toProcess = rest]
       ELSE IF ~Truthy(component)
       THEN [loop EXCEPT !.toProcess = rest, !.warned = Append(@, name)]
       ELSE IF component.kind = "inherited"
       THEN [loop EXCEPT !.toProcess = rest, !.resolved = added, !.threw = TRUE]
       ELSE [loop EXCEPT !.resolved = added,
                         !.toProcess = rest \o SelectSeq(component.def.internalDependencies,
                                                         LAMBDA dep : ~includes(added, dep))]

\* one iteration of the while loop: pop, lowercase, skip what is resolved,
\* warn about what the registry does not have, else add and push the
\* dependencies that are not resolved
resolveStep(reg, loop) ==
    LET name == loop.toProcess[Len(loop.toProcess)]
        rest == SubSeq(loop.toProcess, 1, Len(loop.toProcess) - 1)
        normalizedName == toLowerCase(name)
        component == Lookup(reg, normalizedName)
        added == Append(loop.resolved, normalizedName)
    IN IF includes(loop.resolved, normalizedName)
       THEN [loop EXCEPT !.toProcess = rest]
       ELSE IF ~Truthy(component)
       THEN [loop EXCEPT !.toProcess = rest, !.warned = Append(@, name)]
       ELSE IF component.kind = "inherited"
       \* for (const dep of undefined): TypeError
       THEN [loop EXCEPT !.toProcess = rest, !.resolved = added, !.threw = TRUE]
       ELSE [loop EXCEPT !.resolved = added,
                         !.toProcess = rest \o SelectSeq(component.def.internalDependencies,
                                                         LAMBDA dep : ~includes(added, dep))]

TraversalNames ==
    {"button", "Carousel", "carousel", "dialog", "alertdialog", "nope", "constructor"}

\* const resolved = new Set(); const toProcess = [...componentNames]
InitTraversal ==
    /\ registry \in {Registry, CyclicRegistry}
    /\ diamantJson = getDefaultConfig
    /\ componentsDir = EmptyDir(registry)
    /\ projectType = "nextjs"
    /\ \E componentNames \in SeqsUpTo(TraversalNames, MaxNames) :
          last = [NoCall EXCEPT !.cmd = "resolving", !.args = componentNames,
                                !.toProcess = componentNames]

\* while (toProcess.length > 0) { ... }
ResolveStep ==
    LET loop == resolveStep(registry,
                            [resolved |-> last.resolved, toProcess |-> last.toProcess,
                             warned |-> last.warned, threw |-> FALSE])
    IN /\ last.cmd = "resolving"
       /\ Len(last.toProcess) > 0
       /\ last' = [last EXCEPT !.resolved = loop.resolved,
                               !.toProcess = loop.toProcess,
                               !.warned = loop.warned,
                               !.cmd = IF loop.threw THEN "threw" ELSE "resolving",
                               !.exit = IF loop.threw THEN "throw" ELSE "ok"]
       /\ UNCHANGED <<registry, diamantJson, componentsDir, projectType>>

\* return Array.from(resolved)
ResolveReturn ==
    /\ last.cmd = "resolving"
    /\ Len(last.toProcess) = 0
    /\ last' = [last EXCEPT !.cmd = "resolved"]
    /\ UNCHANGED <<registry, diamantJson, componentsDir, projectType>>

NextTraversal == ResolveStep \/ ResolveReturn

SpecTraversal == InitTraversal /\ [][NextTraversal]_vars

\* the call runs on: an iteration that can be made is made
SpecTraversalFair == SpecTraversal /\ WF_vars(NextTraversal)

(***************************************************************************)
(* Calls of the manifest helpers, from an empty installedComponents.       *)
(***************************************************************************)
InitManifest ==
    /\ registry = CommandRegistry
    /\ diamantJson = getDefaultConfig
    /\ componentsDir = EmptyDir(CommandRegistry)
    /\ projectType \in ProjectTypes
    /\ last = NoCall

CallAddInstalledComponent(componentName) ==
    LET r == addInstalledComponent(diamantJson, componentName)
    IN /\ diamantJson' = r.doc
       /\ last' = [NoCall EXCEPT !.cmd = "addInstalledComponent",
                                 !.args = <<componentName>>,
                                 !.configWrites = r.writes,
                                 !.exit = IF r.threw THEN "throw" ELSE "ok"]
       /\ UNCHANGED <<registry, componentsDir, projectType>>

CallRemoveInstalledComponent(componentName) ==
    LET r == removeInstalledComponent(diamantJson, componentName)
    IN /\ diamantJson' = r.doc
       /\ last' = [NoCall EXCEPT !.cmd = "removeInstalledComponent",
                                 !.args = <<componentName>>,
                                 !.configWrites = r.writes,
                                 !.exit = IF r.threw THEN "throw" ELSE "ok"]
       /\ UNCHANGED <<registry, componentsDir, projectType>>

NextManifest ==
    \/ \E componentName \in Names : CallAddInstalledComponent(componentName)
    \/ \E componentName \in Names : CallRemoveInstalledComponent(componentName)

SpecManifest == InitManifest /\ [][NextManifest]_vars

(***************************************************************************)
(* The commands.  A run of a command is computed from the project as the   *)
(* command finds it; st is the project and the report while the command    *)
(* runs.                                                                   *)
(***************************************************************************)
Start(doc, dir) ==
    [doc |-> doc, dir |-> dir, written |-> <<>>, deleted |-> <<>>, configWrites |-> 0,
     failed |-> <<>>, dependents |-> <<>>, exit |-> "ok"]

\* the project a finished run leaves, and what it leaves in last
Report(cmd, options, asked, answer, resolved, actionSet, warned, st) ==
    [doc |-> st.doc,
     dir |-> st.dir,
     last |-> [cmd |-> cmd, args |-> <<>>, procs |-> <<>>, yes |-> options.yes,
               overwrite |-> options.overwrite, asked |-> asked,
               answer |-> asked /\ answer, resolved |-> resolved,
               actionSet |-> actionSet, written |-> st.written, deleted |-> st.deleted,
               configWrites |-> st.configWrites, failed |-> st.failed,
               dependents |-> st.dependents, warned |-> warned, notInstalled |-> <<>>,
               shown |-> <<>>, toProcess |-> <<>>, exit |-> st.exit]]

\* process.exit that returns to the caller with the status unset
ExitContinues(st, code) == st

Exit(st, code) == [st EXCEPT !.exit = code]

firstFile(reg, name) == Lookup(reg, name).def.files[1]

\* add.ts lines 76-86: the resolved ids whose first file is on disk, and the rest
existingComponents(reg, dir, resolvedComponents) ==
    SelectSeq(resolvedComponents, LAMBDA name : fileExists(dir, firstFile(reg, name)))

\* add.ts lines 76-86 with every resolved id pushed to newComponents
newComponentsAll(reg, dir, resolvedComponents) == resolvedComponents

newComponents(reg, dir, resolvedComponents) ==
    SelectSeq(resolvedComponents, LAMBDA name : ~fileExists(dir, firstFile(reg, name)))

\* add.ts lines 88 and 96: the overwrite confirmation is asked
addAsks(existing, options) == Len(existing) > 0 /\ ~options.overwrite /\ ~options.yes

\* add.ts lines 115-117 without the overwrite test
componentsToAddAlwaysAll(overwrite, resolvedComponents, new) == resolvedComponents

\* add.ts lines 115-117
componentsToAdd(overwrite, resolvedComponents, new) ==
    IF overwrite THEN resolvedComponents ELSE new

\* the (component, file) pairs in the order of the loops of add.ts lines 154-158
RECURSIVE filePairs(_, _)
filePairs(reg, names) ==
    IF Len(names) = 0 THEN <<>>
    ELSE LET files == Lookup(reg, Head(names)).def.files
         IN [i \in 1..Len(files) |-> [name |-> Head(names), file |-> files[i]]]
            \o filePairs(reg, Tail(names))

\* add.ts lines 162-191 with a catch that reports the failure and lets the
\* loops go on
RECURSIVE addCopyLoopContinues(_, _, _, _)
addCopyLoopContinues(st, work, utilsImportPath, failAt) ==
    IF Len(work) = 0 THEN st
    ELSE LET item == Head(work)
             content == replaceUtilsImport(Template(item.file), utilsImportPath)
             copied == [st EXCEPT !.dir = writeFile(st.dir, item.file, content),
                                  !.written = Append(st.written, item.file)]
             inserted == addInstalledComponent(st.doc, item.name)
         IN IF Len(st.written) + 1 = failAt /\ st.exit = "ok"
            THEN addCopyLoopContinues([st EXCEPT !.exit = "exit1",
                                                 !.failed = <<item.name, item.file>>],
                                      Tail(work), utilsImportPath, failAt)
            ELSE addCopyLoopContinues([copied EXCEPT !.doc = inserted.doc,
                                                     !.configWrites = @ + inserted.writes],
                                      Tail(work), utilsImportPath, failAt)

\* add.ts lines 162-191 for each pair: read the template, rewrite the import,
\* write the file, add the id to the manifest; the copy numbered failAt
\* throws, and the catch ends the process
RECURSIVE addCopyLoop(_, _, _, _)
addCopyLoop(st, work, utilsImportPath, failAt) ==
    IF Len(work) = 0 \/ st.exit # "ok" THEN st
    ELSE LET item == Head(work)
             content == replaceUtilsImport(Template(item.file), utilsImportPath)
             copied == [st EXCEPT !.dir = writeFile(st.dir, item.file, content),
                                  !.written = Append(st.written, item.file)]
             inserted == addInstalledComponent(st.doc, item.name)
         IN IF Len(st.written) + 1 = failAt
            THEN [st EXCEPT !.exit = "exit1", !.failed = <<item.name, item.file>>]
            ELSE IF inserted.threw
            THEN [copied EXCEPT !.exit = "exit1", !.failed = <<item.name, item.file>>]
            ELSE addCopyLoop([copied EXCEPT !.doc = inserted.doc,
                                            !.configWrites = @ + inserted.writes],
                             Tail(work), utilsImportPath, failAt)

\* add.ts lines 23-200
addRun(reg, doc, dir, ptype, components, options, answer, selection, failAt) ==
    LET st == Start(doc, dir)
        read == readConfig(doc)
        config == read.config
        requested == IF options.all THEN getAllComponentNames(reg) ELSE components
        prompted == Len(requested) = 0
        chosen == IF prompted THEN selection ELSE requested
        res == resolveComponentDependencies(reg, chosen)
        resolvedComponents == res.value
        existing == existingComponents(reg, dir, resolvedComponents)
        new == newComponents(reg, dir, resolvedComponents)
        asked == addAsks(existing, options)
        overwrite == options.overwrite \/ (asked /\ answer)
        toAdd == componentsToAdd(overwrite, resolvedComponents, new)
        done == addCopyLoop(st, filePairs(reg, toAdd), addUtilsImportPath(ptype, config), failAt)
    IN IF ~configExists(doc) \/ read.null
       THEN Report("add", options, FALSE, FALSE, <<>>, <<>>, <<>>, Exit(st, "exit1"))
       ELSE IF prompted /\ ~config.hasInstalledComponents
       \* config.installedComponents.includes of undefined: TypeError
       THEN Report("add", options, FALSE, FALSE, <<>>, <<>>, <<>>, Exit(st, "throw"))
       ELSE IF prompted /\ Len(selection) = 0
       THEN Report("add", options, FALSE, FALSE, <<>>, <<>>, <<>>, st)
       ELSE IF res.threw
       THEN Report("add", options, FALSE, FALSE, <<>>, <<>>, res.warned, Exit(st, "throw"))
       ELSE IF asked /\ ~answer /\ Len(new) = 0
       THEN Report("add", options, asked, answer, resolvedComponents, <<>>, res.warned, st)
       ELSE IF Len(toAdd) = 0
       THEN Report("add", options, asked, answer, resolvedComponents, <<>>, res.warned, st)
       ELSE Report("add", options, asked, answer, resolvedComponents, toAdd, res.warned, done)

\* remove.ts lines 34-41: the lowercased names the registry answers for, and
\* the other names as given
validComponents(reg, components) ==
    LET known == SelectSeq(components, LAMBDA name : Truthy(Lookup(reg, toLowerCase(name))))
    IN [i \in 1..Len(known) |-> toLowerCase(known[i])]

invalidComponents(reg, components) ==
    SelectSeq(components, LAMBDA name : ~Truthy(Lookup(reg, toLowerCase(name))))

\* remove.ts lines 75-85 without the test that the dependent is not itself
\* being removed
RECURSIVE dependentComponentsAnyInstalled(_, _, _, _)
dependentComponentsAnyInstalled(reg, allInstalled, installedComponents, names) ==
    IF Len(names) = 0 THEN <<>>
    ELSE SelectSeq(getAllComponentNames(reg),
                   LAMBDA otherName :
                      /\ includes(Lookup(reg, otherName).def.internalDependencies, Head(names))
                      /\ includes(allInstalled, otherName))
         \o dependentComponentsAnyInstalled(reg, allInstalled, installedComponents,
                                            Tail(names))

\* remove.ts lines 75-85
RECURSIVE dependentComponents(_, _, _, _)
dependentComponents(reg, allInstalled, installedComponents, names) ==
    IF Len(names) = 0 THEN <<>>
    ELSE SelectSeq(getAllComponentNames(reg),
                   LAMBDA otherName :
                      /\ includes(Lookup(reg, otherName).def.internalDependencies, Head(names))
                      /\ includes(allInstalled, otherName)
                      /\ ~includes(installedComponents, otherName))
         \o dependentComponents(reg, allInstalled, installedComponents, Tail(names))

\* remove.ts lines 120-123
RECURSIVE deleteFiles(_, _)
deleteFiles(st, files) ==
    IF Len(files) = 0 THEN st
    ELSE deleteFiles([st EXCEPT !.dir = deleteFile(st.dir, Head(files)),
                                !.deleted = IF fileExists(st.dir, Head(files))
                                            THEN Append(st.deleted, Head(files))
                                            ELSE st.deleted],
                     Tail(files))

\* remove.ts lines 117-126 without the removeInstalledComponent call
RECURSIVE removeLoopFilesOnly(_, _, _)
removeLoopFilesOnly(reg, st, names) ==
    IF Len(names) = 0 THEN st
    ELSE removeLoopFilesOnly(reg, deleteFiles(st, Lookup(reg, Head(names)).def.files),
                             Tail(names))

\* remove.ts lines 117-126, stopping when a dependents warning was printed
RECURSIVE removeLoopBlockedByDependents(_, _, _)
removeLoopBlockedByDependents(reg, st, names) ==
    IF Len(names) = 0 \/ st.exit # "ok" \/ Len(st.dependents) > 0 THEN st
    ELSE LET gone == deleteFiles(st, Lookup(reg, Head(names)).def.files)
             removed == removeInstalledComponent(gone.doc, Head(names))
         IN removeLoopBlockedByDependents(reg,
                                          [gone EXCEPT !.doc = removed.doc,
                                                       !.configWrites = @ + removed.writes],
                                          Tail(names))

\* remove.ts lines 117-126
RECURSIVE removeLoop(_, _, _)
removeLoop(reg, st, names) ==
    IF Len(names) = 0 \/ st.exit # "ok" THEN st
    ELSE LET gone == deleteFiles(st, Lookup(reg, Head(names)).def.files)
             removed == removeInstalledComponent(gone.doc, Head(names))
         IN IF removed.threw
            THEN Exit(gone, "throw")
            ELSE removeLoop(reg,
                            [gone EXCEPT !.doc = removed.doc,
                                         !.configWrites = @ + removed.writes],
                            Tail(names))

\* remove.ts lines 13-130
removeRun(reg, doc, dir, components, options, answer) ==
    LET st == Start(doc, dir)
        read == readConfig(doc)
        config == read.config
        valid == validComponents(reg, components)
        invalid == invalidComponents(reg, components)
        \* componentDef.files[0] of an inherited value: TypeError
        throws == \E i \in 1..Len(valid) : Lookup(reg, valid[i]).kind = "inherited"
        installedComponents ==
            SelectSeq(valid, LAMBDA name : fileExists(dir, firstFile(reg, name)))
        allInstalled == IF config.hasInstalledComponents THEN config.installedComponents
                        ELSE <<>>
        dependents == dependentComponents(reg, allInstalled, installedComponents,
                                          installedComponents)
        asked == ~options.yes
        warnedSt == [st EXCEPT !.dependents = dependents]
    IN IF ~configExists(doc) \/ read.null
       THEN Report("remove", options, FALSE, FALSE, <<>>, <<>>, <<>>, Exit(st, "exit1"))
       ELSE IF Len(valid) = 0
       THEN Report("remove", options, FALSE, FALSE, <<>>, <<>>, invalid, st)
       ELSE IF throws
       THEN Report("remove", options, FALSE, FALSE, valid, <<>>, invalid, Exit(st, "throw"))
       ELSE IF Len(installedComponents) = 0
       \* "None of the specified components are installed."
       THEN [Report("remove", options, FALSE, FALSE, valid, <<>>, invalid, st)
                EXCEPT !.last.notInstalled = valid]
       ELSE IF asked /\ ~answer
       THEN Report("remove", options, asked, answer, valid, <<>>, invalid, warnedSt)
       ELSE Report("remove", options, asked, answer, valid, installedComponents, invalid,
                   removeLoop(reg, warnedSt, installedComponents))

\* update.ts lines 78-94 over every file of the component: a missing file or
\* one that differs from its template is a change
hasChangesAnyFile(reg, dir, utilsImportPath, normalizedName) ==
    \E file \in Range(Lookup(reg, normalizedName).def.files) :
        \/ ~fileExists(dir, file)
        \/ trim(dir[file].content) # trim(replaceUtilsImport(Template(file), utilsImportPath))

\* update.ts lines 70-98: a listed name whose lowercased id is in the registry
\* and whose first file is on disk, has changes
hasChanges(reg, dir, utilsImportPath, normalizedName) ==
    LET file == firstFile(reg, normalizedName)
        localContent == dir[file].content
        sourceContent == replaceUtilsImport(Template(file), utilsImportPath)
    IN trim(localContent) # trim(sourceContent)

\* update.ts lines 70-102: the names checked, lowercased, with hasChanges
updateable(reg, dir, utilsImportPath, components) ==
    LET checked == SelectSeq(components,
                             LAMBDA name :
                                /\ Lookup(reg, toLowerCase(name)).kind = "definition"
                                /\ fileExists(dir, firstFile(reg, toLowerCase(name)))
                                /\ hasChanges(reg, dir, utilsImportPath, toLowerCase(name)))
    IN [i \in 1..Len(checked) |-> toLowerCase(checked[i])]

\* update.ts lines 131-147 with add's call of addInstalledComponent after
\* each write
RECURSIVE updateLoopRecords(_, _, _)
updateLoopRecords(st, work, utilsImportPath) ==
    IF Len(work) = 0 THEN st
    ELSE LET file == Head(work).file
             content == replaceUtilsImport(Template(file), utilsImportPath)
             inserted == addInstalledComponent(st.doc, Head(work).name)
         IN updateLoopRecords([st EXCEPT !.dir = writeFile(st.dir, file, content),
                                         !.written = Append(st.written, file),
                                         !.doc = inserted.doc,
                                         !.configWrites = @ + inserted.writes],
                              Tail(work), utilsImportPath)

\* update.ts lines 131-147
RECURSIVE updateLoop(_, _, _)
updateLoop(st, work, utilsImportPath) ==
    IF Len(work) = 0 THEN st
    ELSE LET file == Head(work).file
             content == replaceUtilsImport(Template(file), utilsImportPath)
         IN updateLoop([st EXCEPT !.dir = writeFile(st.dir, file, content),
                                  !.written = Append(st.written, file)],
                       Tail(work), utilsImportPath)

\* update.ts lines 29-151
updateRun(reg, doc, dir, ptype, components, options, answer) ==
    LET st == Start(doc, dir)
        read == readConfig(doc)
        config == read.config
        listed == IF Len(components) = 0
                  THEN (IF config.hasInstalledComponents THEN config.installedComponents
                        ELSE <<>>)
                  ELSE components
        utilsImportPath ==
            getUtilsImportPath(ptype, config.aliases.components, config.aliases.utils)
        \* componentDef.files[0] of an inherited value: TypeError
        throws == \E i \in 1..Len(listed) :
                     Lookup(reg, toLowerCase(listed[i])).kind = "inherited"
        toUpdate == updateable(reg, dir, utilsImportPath, listed)
        asked == ~options.yes
    IN IF ~configExists(doc) \/ read.null
       THEN Report("update", options, FALSE, FALSE, <<>>, <<>>, <<>>, Exit(st, "exit1"))
       ELSE IF Len(listed) = 0
       THEN Report("update", options, FALSE, FALSE, <<>>, <<>>, <<>>, st)
       ELSE IF throws
       THEN Report("update", options, FALSE, FALSE, <<>>, <<>>, <<>>, Exit(st, "throw"))
       ELSE IF Len(toUpdate) = 0
       THEN Report("update", options, FALSE, FALSE, <<>>, <<>>, <<>>, st)
       ELSE IF asked /\ ~answer
       THEN Report("update", options, asked, answer, <<>>, <<>>, <<>>, st)
       ELSE Report("update", options, asked, answer, <<>>, toUpdate, <<>>,
                   updateLoop(st, filePairs(reg, toUpdate), utilsImportPath))

\* diff.ts lines 130-177 with a write of the latest version to the local file
showDiffRewrites(reg, st, name, utilsImportPath) ==
    LET file == firstFile(reg, name)
        sourceContent == replaceUtilsImport(Template(file), utilsImportPath)
    IN [st |-> [st EXCEPT !.dir = writeFile(st.dir, file, sourceContent),
                          !.written = Append(st.written, file)],
        status |-> IF trim(st.dir[file].content) = trim(sourceContent)
                   THEN "upToDate" ELSE "modified"]

\* diff.ts lines 130-177: the two contents are read and compared, the
\* differences printed
showDiff(reg, st, name, utilsImportPath) ==
    LET file == firstFile(reg, name)
        localContent == st.dir[file].content
        sourceContent == replaceUtilsImport(Template(file), utilsImportPath)
    IN [st |-> st,
        status |-> IF trim(localContent) = trim(sourceContent)
                   THEN "upToDate" ELSE "modified"]

Shown(id, status) == [id |-> id, status |-> status]

\* diff.ts lines 81-117: one status line per installed id the registry knows
RECURSIVE diffSummary(_, _, _, _)
diffSummary(reg, dir, utilsImportPath, installedComponents) ==
    IF Len(installedComponents) = 0 THEN <<>>
    ELSE LET name == Head(installedComponents)
             rest == diffSummary(reg, dir, utilsImportPath, Tail(installedComponents))
             file == firstFile(reg, name)
             sourceContent == replaceUtilsImport(Template(file), utilsImportPath)
         IN IF ~Truthy(Lookup(reg, name)) THEN rest
            ELSE IF ~fileExists(dir, file) THEN <<Shown(name, "missing")>> \o rest
            ELSE IF trim(dir[file].content) = trim(sourceContent)
            THEN <<Shown(name, "upToDate")>> \o rest
            ELSE <<Shown(name, "modified")>> \o rest

NoOptions == [all |-> FALSE, yes |-> FALSE, overwrite |-> FALSE]

\* diff.ts lines 24-128; component is "" when no argument is given
diffRun(reg, doc, dir, ptype, component) ==
    LET st == Start(doc, dir)
        read == readConfig(doc)
        config == read.config
        utilsImportPath ==
            getUtilsImportPath(ptype, config.aliases.components, config.aliases.utils)
        normalizedName == toLowerCase(component)
        componentDef == Lookup(reg, normalizedName)
        shownDiff == showDiff(reg, st, normalizedName, utilsImportPath)
        installedComponents == IF config.hasInstalledComponents
                               THEN config.installedComponents ELSE <<>>
        \* componentDef.files[0] of an inherited value: TypeError
        throws == \E i \in 1..Len(installedComponents) :
                     Lookup(reg, installedComponents[i]).kind = "inherited"
        say(run, shown) == [run EXCEPT !.last.shown = shown]
    IN IF ~configExists(doc) \/ read.null
       THEN Report("diff", NoOptions, FALSE, FALSE, <<>>, <<>>, <<>>, Exit(st, "exit1"))
       ELSE IF component # ""
       THEN IF ~Truthy(componentDef)
            THEN say(Report("diff", NoOptions, FALSE, FALSE, <<>>, <<>>, <<component>>, st),
                     <<Shown(component, "unknown")>>)
            ELSE IF componentDef.kind = "inherited"
            THEN Report("diff", NoOptions, FALSE, FALSE, <<>>, <<>>, <<>>, Exit(st, "throw"))
            ELSE IF ~fileExists(dir, firstFile(reg, normalizedName))
            THEN say([Report("diff", NoOptions, FALSE, FALSE, <<>>, <<>>, <<>>, st)
                         EXCEPT !.last.notInstalled = <<normalizedName>>],
                     <<Shown(normalizedName, "notInstalled")>>)
            ELSE say(Report("diff", NoOptions, FALSE, FALSE, <<>>, <<>>, <<>>, shownDiff.st),
                     <<Shown(normalizedName, shownDiff.status)>>)
       ELSE IF Len(installedComponents) = 0
       THEN Report("diff", NoOptions, FALSE, FALSE, <<>>, <<>>, <<>>, st)
       ELSE IF throws
       THEN Report("diff", NoOptions, FALSE, FALSE, <<>>, <<>>, <<>>, Exit(st, "throw"))
       ELSE say(Report("diff", NoOptions, FALSE, FALSE, <<>>, <<>>, <<>>, st),
                diffSummary(reg, dir, utilsImportPath, installedComponents))

\* list.ts: every component to show with its mark, ● installed or ○ not
listRun(reg, doc, dir, installed) ==
    LET st == Start(doc, dir)
        read == readConfig(doc)
        allComponents == getAllComponentNames(reg)
        installedComponents ==
            IF configExists(doc) /\ ~read.null /\ read.config.hasInstalledComponents
            THEN read.config.installedComponents
            ELSE <<>>
        componentsToShow ==
            IF installed
            THEN SelectSeq(allComponents, LAMBDA name : includes(installedComponents, name))
            ELSE allComponents
        run == Report("list", NoOptions, FALSE, FALSE, <<>>, <<>>, <<>>, st)
    IN [run EXCEPT !.last.shown =
           [i \in 1..Len(componentsToShow) |->
               Shown(componentsToShow[i],
                     IF includes(installedComponents, componentsToShow[i])
                     THEN "installed" ELSE "notInstalled")]]

\* init.ts lines 58-88: the aliases init settles on when the prompts are
\* answered with their defaults
initAliases(hasSrcDir, components) ==
    [components |-> IF components # <<>> THEN components
                    ELSE IF hasSrcDir THEN <<"src", "components", "ui">>
                    ELSE <<"components", "ui">>,
     utils |-> IF hasSrcDir THEN <<"src", "lib">> ELSE <<"lib">>]

\* init.ts lines 24-190 starting from the manifest it finds instead of
\* getDefaultConfig()
initRunKeepsInstalled(doc, dir, options, overwrite, tailwind, typescript, hasSrcDir, components) ==
    LET st == Start(doc, dir)
        asked == configExists(doc)
        base == IF readConfig(doc).null THEN getDefaultConfig ELSE doc
        config == [base EXCEPT !.typescript = typescript,
                               !.aliases = initAliases(hasSrcDir, components)]
    IN IF asked /\ ~overwrite
       THEN Report("init", options, asked, overwrite, <<>>, <<>>, <<>>, st)
       ELSE IF ~tailwind
       THEN Report("init", options, asked, overwrite, <<>>, <<>>, <<>>, Exit(st, "exit1"))
       ELSE Report("init", options, asked, overwrite, <<>>, <<>>, <<>>,
                   [st EXCEPT !.doc = writeConfig(config), !.configWrites = 1])

\* init.ts lines 24-190: the overwrite question when a manifest exists,
\* Tailwind detected or installed (tailwind) or not, the configuration built
\* from getDefaultConfig(), and writeConfig; the utils file and the theme
\* styles it writes are outside the components directory
initRun(doc, dir, options, overwrite, tailwind, typescript, hasSrcDir, components) ==
    LET st == Start(doc, dir)
        asked == configExists(doc)
        config == [getDefaultConfig EXCEPT !.typescript = typescript,
                                           !.aliases = initAliases(hasSrcDir, components)]
    IN IF asked /\ ~overwrite
       THEN Report("init", options, asked, overwrite, <<>>, <<>>, <<>>, st)
       ELSE IF ~tailwind
       THEN Report("init", options, asked, overwrite, <<>>, <<>>, <<>>, Exit(st, "exit1"))
       ELSE Report("init", options, asked, overwrite, <<>>, <<>>, <<>>,
                   [st EXCEPT !.doc = writeConfig(config), !.configWrites = 1])

(***************************************************************************)
(* The project: a freshly initialised manifest and an empty components     *)
(* directory, then commands.                                               *)
(***************************************************************************)
Options(all, yes, overwrite) == [all |-> all, yes |-> yes, overwrite |-> overwrite]

\* the names given on a command line: ids of the registry, in some letter
\* case, and the two names that are no id
ArgNames(reg) ==
    {name \in Names \cup {"combobox"} :
        toLowerCase(name) \in RegistryIds(reg) \cup {"nope", "constructor"}}

ArgLists(reg) == SeqsUpTo(ArgNames(reg), MaxArgs)

\* what the multiselect prompt of add can return: ids in registry order
Selections(reg) ==
    {SelectSeq(getAllComponentNames(reg), LAMBDA name : name \in chosen) :
        chosen \in SUBSET RegistryIds(reg)}

Init ==
    /\ registry = CommandRegistry
    /\ diamantJson = getDefaultConfig
    /\ componentsDir = EmptyDir(CommandRegistry)
    /\ projectType \in ProjectTypes
    /\ last = NoCall

Finish(run) ==
    /\ diamantJson' = run.doc
    /\ componentsDir' = run.dir
    /\ last' = run.last
    /\ UNCHANGED <<registry, projectType>>

\* diamant add [components...] [--yes] [--all] [--overwrite]; the copy
\* numbered failAt fails (none when failAt is 0)
add(failPoints) ==
    \E all, yes, overwrite \in BOOLEAN :
    \E components \in (IF all THEN {<<>>} ELSE ArgLists(registry)) :
    \E selection \in (IF ~all /\ components = <<>> THEN Selections(registry) ELSE {<<>>}) :
    \E answer \in (IF yes \/ overwrite THEN {FALSE} ELSE BOOLEAN) :
    \E failAt \in failPoints :
        Finish(addRun(registry, diamantJson, componentsDir, projectType, components,
                      Options(all, yes, overwrite), answer, selection, failAt))

\* diamant remove <components...> [--yes]
remove ==
    \E yes \in BOOLEAN :
    \E components \in ArgLists(registry) :
    \E answer \in (IF yes THEN {FALSE} ELSE BOOLEAN) :
        Finish(removeRun(registry, diamantJson, componentsDir, components,
                         Options(FALSE, yes, FALSE), answer))

\* diamant update [components...] [--yes]
update ==
    \E yes \in BOOLEAN :
    \E components \in ArgLists(registry) :
    \E answer \in (IF yes THEN {FALSE} ELSE BOOLEAN) :
        Finish(updateRun(registry, diamantJson, componentsDir, projectType, components,
                         Options(FALSE, yes, FALSE), answer))

LocalLine == Line("// local edit", "")

\* the user edits an installed file that has no local line yet: one is appended
LocalEdit ==
    \E file \in DOMAIN componentsDir :
        /\ fileExists(componentsDir, file)
        /\ ~includes(componentsDir[file].content, LocalLine)
        /\ componentsDir' = writeFile(componentsDir, file,
                                      Append(componentsDir[file].content, LocalLine))
        /\ last' = [NoCall EXCEPT !.cmd = "edit", !.written = <<file>>]
        /\ UNCHANGED <<registry, diamantJson, projectType>>

NoFailure == {0}

Next == add(NoFailure) \/ remove \/ update \/ LocalEdit

Spec == Init /\ [][Next]_vars

(***************************************************************************)
(* The same commands over a registry with a two-file component, where a    *)
(* copy of add may fail.                                                   *)
(***************************************************************************)
\* the copies of one add run that may fail: the first MaxFailAt
MaxFailAt == 3

InitFail ==
    /\ registry = MultiFileRegistry
    /\ diamantJson = getDefaultConfig
    /\ componentsDir = EmptyDir(MultiFileRegistry)
    /\ projectType \in ProjectTypes
    /\ last = NoCall

NextFail == add(0..MaxFailAt) \/ remove \/ update \/ LocalEdit

SpecFail == InitFail /\ [][NextFail]_vars

(***************************************************************************)
(* One command run on a project as a user may have left it: any of the     *)
(* components on disk, some edited, a manifest document that is missing,   *)
(* unreadable or lists any of the ids.                                     *)
(***************************************************************************)
\* longest list of component arguments of the one command
MaxListed == 2

ListedArgs(reg) == SeqsUpTo(ArgNames(reg), MaxListed)

\* the ids of a set, in registry order
IdList(reg, ids) == SelectSeq(getAllComponentNames(reg), LAMBDA name : name \in ids)

\* the file add left, with a line of the user's after it if edited
InstalledFile(ptype, config, file, edited) ==
    LET content == replaceUtilsImport(Template(file), addUtilsImportPath(ptype, config))
    IN File(IF edited THEN Append(content, LocalLine) ELSE content)

InitOnce ==
    /\ registry = CommandRegistry
    /\ projectType \in ProjectTypes
    /\ last = NoCall
    /\ \E onDisk \in SUBSET RegistryIds(CommandRegistry) :
       \E edited \in SUBSET onDisk :
       \E state \in {"json", "missing", "invalid"} :
       \E listed \in (IF state = "json" THEN SUBSET RegistryIds(CommandRegistry)
                       ELSE {onDisk}) :
          /\ diamantJson =
                [getDefaultConfig EXCEPT
                    !.state = state,
                    !.installedComponents = sort(IdList(CommandRegistry, listed))]
          /\ componentsDir =
                [file \in FilesOf(CommandRegistry) |->
                    IF \E id \in onDisk : firstFile(CommandRegistry, id) = file
                    THEN InstalledFile(projectType, getDefaultConfig, file,
                                       \E id \in edited : firstFile(CommandRegistry, id) = file)
                    ELSE Absent]

\* no command has run yet
Idle == last.cmd = "none"

\* the arguments of the one command are kept with its report
FinishOnce(run, args) ==
    /\ diamantJson' = run.doc
    /\ componentsDir' = run.dir
    /\ last' = [run.last EXCEPT !.args = args]
    /\ UNCHANGED <<registry, projectType>>

addOnce ==
    /\ Idle
    /\ \E all, yes, overwrite \in BOOLEAN :
       \E components \in (IF all THEN {<<>>} ELSE ListedArgs(registry)) :
       \E selection \in (IF ~all /\ components = <<>> THEN Selections(registry) ELSE {<<>>}) :
       \E answer \in (IF yes \/ overwrite THEN {FALSE} ELSE BOOLEAN) :
           FinishOnce(addRun(registry, diamantJson, componentsDir, projectType, components,
                             Options(all, yes, overwrite), answer, selection, 0),
                      components)

removeOnce ==
    /\ Idle
    /\ \E yes \in BOOLEAN :
       \E components \in ListedArgs(registry) :
       \E answer \in (IF yes THEN {FALSE} ELSE BOOLEAN) :
           FinishOnce(removeRun(registry, diamantJson, componentsDir, components,
                                Options(FALSE, yes, FALSE), answer),
                      components)

updateOnce ==
    /\ Idle
    /\ \E yes \in BOOLEAN :
       \E components \in ListedArgs(registry) :
       \E answer \in (IF yes THEN {FALSE} ELSE BOOLEAN) :
           FinishOnce(updateRun(registry, diamantJson, componentsDir, projectType, components,
                                Options(FALSE, yes, FALSE), answer),
                      components)

\* diamant diff [component]
diffOnce ==
    /\ Idle
    /\ \E component \in ArgNames(registry) \cup {""} :
           FinishOnce(diffRun(registry, diamantJson, componentsDir, projectType, component),
                      IF component = "" THEN <<>> ELSE <<component>>)

\* diamant list [--installed]
listOnce ==
    /\ Idle
    /\ \E installed \in BOOLEAN :
           FinishOnce(listRun(registry, diamantJson, componentsDir, installed), <<>>)

NextOnce == addOnce \/ removeOnce \/ updateOnce \/ diffOnce \/ listOnce

SpecOnce == InitOnce /\ [][NextOnce]_vars

(***************************************************************************)
(* One command run over a registry with a two-file component, on a project *)
(* where any file may be absent, as add wrote it, or edited, and where a   *)
(* copy of add may fail.                                                   *)
(***************************************************************************)
InitCopy ==
    /\ registry = CopyRegistry
    /\ projectType \in ProjectTypes
    /\ last = NoCall
    /\ \E listed \in SUBSET RegistryIds(CopyRegistry) :
       \E present \in SUBSET FilesOf(CopyRegistry) :
       \E edited \in SUBSET present :
          /\ diamantJson =
                [getDefaultConfig EXCEPT
                    !.installedComponents = sort(IdList(CopyRegistry, listed))]
          /\ componentsDir =
                [file \in FilesOf(CopyRegistry) |->
                    IF file \in present
                    THEN InstalledFile(projectType, getDefaultConfig, file, file \in edited)
                    ELSE Absent]

\* diamant add --yes [--all] [--overwrite], where the copy numbered failAt fails
addFailing ==
    /\ Idle
    /\ \E all, overwrite \in BOOLEAN :
       \E components \in (IF all THEN {<<>>} ELSE ArgLists(registry)) :
       \E selection \in (IF ~all /\ components = <<>> THEN Selections(registry) ELSE {<<>>}) :
       \E failAt \in 1..MaxFailAt :
           FinishOnce(addRun(registry, diamantJson, componentsDir, projectType, components,
                             Options(all, TRUE, overwrite), FALSE, selection, failAt),
                      components)

\* diamant update [components...] [--yes] with the shorter argument lists
updateShort ==
    /\ Idle
    /\ \E yes \in BOOLEAN :
       \E components \in ArgLists(registry) :
       \E answer \in (IF yes THEN {FALSE} ELSE BOOLEAN) :
           FinishOnce(updateRun(registry, diamantJson, componentsDir, projectType, components,
                                Options(FALSE, yes, FALSE), answer),
                      components)

NextCopy == addFailing \/ updateShort \/ diffOnce

SpecCopy == InitCopy /\ [][NextCopy]_vars

(***************************************************************************)
(* A project with a src directory that is initialised, filled by add, and  *)
(* initialised again.                                                      *)
(***************************************************************************)
InitProject ==
    /\ registry = CommandRegistry
    /\ diamantJson = [getDefaultConfig EXCEPT !.state = "missing"]
    /\ componentsDir = EmptyDir(CommandRegistry)
    /\ projectType \in ProjectTypes
    /\ last = NoCall

\* diamant init [--yes] [--typescript]
init ==
    \E yes, overwrite, tailwind, typescript \in BOOLEAN :
        Finish(initRun(diamantJson, componentsDir, Options(FALSE, yes, FALSE),
                       overwrite, tailwind, typescript, TRUE, <<>>))

NextProject == init \/ add(NoFailure)

SpecProject == InitProject /\ [][NextProject]_vars

(***************************************************************************)
(* Two add invocations at once on one project.  The copy loop of each      *)
(* takes its steps between the awaits: the file is written (add.ts line    *)
(* 185), the manifest is read (config.ts line 72), and the manifest with   *)
(* the id pushed is written (config.ts lines 75-78).  No lock is taken.    *)
(***************************************************************************)
\* add --yes --overwrite of components, as it enters its copy loop: config is
\* the manifest read at add.ts line 34, read the one read last at config.ts
\* line 72
Invocation(reg, doc, components) ==
    [components |-> components,
     config |-> readConfig(doc).config,
     work |-> filePairs(reg, resolveComponentDependencies(reg, components).value),
     pc |-> "copy",
     read |-> readConfig(doc).config]

\* config.ts lines 75-78 on the document as it is on disk at the time of the
\* write instead of the one read at line 72
addInstalledComponentRereads(read, onDisk, componentName) ==
    addInstalledComponent(onDisk, componentName)

\* config.ts lines 75-78 on the document read at line 72
addInstalledComponentWrite(read, onDisk, componentName) ==
    addInstalledComponent(read, componentName)

InitRace ==
    /\ registry = CommandRegistry
    /\ projectType \in ProjectTypes
    /\ componentsDir = EmptyDir(CommandRegistry)
    /\ \E listed \in SUBSET RegistryIds(CommandRegistry) :
          diamantJson = [getDefaultConfig EXCEPT
                            !.installedComponents = sort(IdList(CommandRegistry, listed))]
    /\ \E a, b \in RegistryIds(CommandRegistry) :
          /\ a # b
          /\ last = [NoCall EXCEPT
                        !.cmd = "race",
                        !.procs = <<Invocation(CommandRegistry, diamantJson, <<a>>),
                                    Invocation(CommandRegistry, diamantJson, <<b>>)>>]

\* add.ts lines 162-185: the next file of invocation p is written
RaceCopy(p) ==
    /\ last.cmd = "race"
    /\ last.procs[p].pc = "copy"
    /\ LET proc == last.procs[p]
           file == Head(proc.work).file
           content == replaceUtilsImport(Template(file),
                                         addUtilsImportPath(projectType, proc.config))
       IN /\ componentsDir' = writeFile(componentsDir, file, content)
          /\ last' = [last EXCEPT !.procs[p].pc = "read"]
    /\ UNCHANGED <<registry, diamantJson, projectType>>

\* config.ts line 72: invocation p reads the manifest
RaceRead(p) ==
    /\ last.cmd = "race"
    /\ last.procs[p].pc = "read"
    /\ last' = [last EXCEPT !.procs[p].pc = "write",
                            !.procs[p].read = readConfig(diamantJson).config]
    /\ UNCHANGED <<registry, diamantJson, componentsDir, projectType>>

\* config.ts lines 75-78: invocation p writes the manifest it read with the
\* id pushed, unless the id was in it, and goes on to its next file
RaceWrite(p) ==
    /\ last.cmd = "race"
    /\ last.procs[p].pc = "write"
    /\ LET proc == last.procs[p]
           inserted == addInstalledComponentWrite(proc.read, diamantJson,
                                                  Head(proc.work).name)
       IN /\ diamantJson' = IF inserted.writes = 1 THEN inserted.doc ELSE diamantJson
          /\ last' = [last EXCEPT !.procs[p].work = Tail(proc.work),
                                  !.procs[p].pc = IF Len(proc.work) = 1 THEN "done"
                                                  ELSE "copy"]
    /\ UNCHANGED <<registry, componentsDir, projectType>>

NextRace == \E p \in 1..2 : RaceCopy(p) \/ RaceRead(p) \/ RaceWrite(p)

SpecRace == InitRace /\ [][NextRace]_vars

(***************************************************************************)
(* One command that reads the installed list, on a project whose manifest  *)
(* may list an id the registry does not have.                              *)
(***************************************************************************)
\* ids a manifest may list that are no registry key
UnknownIds == {"nope"}

InitStale ==
    /\ registry = CommandRegistry
    /\ projectType \in ProjectTypes
    /\ last = NoCall
    /\ \E onDisk \in SUBSET RegistryIds(CommandRegistry) :
       \E edited \in SUBSET onDisk :
       \E listed \in SUBSET RegistryIds(CommandRegistry) :
       \E unknown \in SUBSET UnknownIds :
          /\ diamantJson =
                [getDefaultConfig EXCEPT
                    !.installedComponents =
                        sort(IdList(CommandRegistry, listed)
                             \o SelectSeq(<<"nope">>, LAMBDA id : id \in unknown))]
          /\ componentsDir =
                [file \in FilesOf(CommandRegistry) |->
                    IF \E id \in onDisk : firstFile(CommandRegistry, id) = file
                    THEN InstalledFile(projectType, getDefaultConfig, file,
                                       \E id \in edited : firstFile(CommandRegistry, id) = file)
                    ELSE Absent]

NextStale == diffOnce \/ updateOnce \/ listOnce

SpecStale == InitStale /\ [][NextStale]_vars

(***************************************************************************)
(* One command on a project whose manifest is the document of the README's *)
(* Configuration section: typescript, tailwind and aliases, and no         *)
(* installedComponents field.                                              *)
(***************************************************************************)
InitReadme ==
    /\ registry = CommandRegistry
    /\ projectType \in ProjectTypes
    /\ last = NoCall
    /\ diamantJson = [getDefaultConfig EXCEPT !.hasInstalledComponents = FALSE]
    /\ \E onDisk \in SUBSET RegistryIds(CommandRegistry) :
       \E edited \in SUBSET onDisk :
          componentsDir =
             [file \in FilesOf(CommandRegistry) |->
                 IF \E id \in onDisk : firstFile(CommandRegistry, id) = file
                 THEN InstalledFile(projectType, getDefaultConfig, file,
                                    \E id \in edited : firstFile(CommandRegistry, id) = file)
                 ELSE Absent]

SpecReadme == InitReadme /\ [][NextOnce]_vars

Installed == diamantJson.installedComponents

\* C4: addInstalledComponent is idempotent: after a call the id is in
\* installedComponents exactly once, and a call made when the id is already
\* present writes nothing and leaves the manifest as it was.
C4_AddInstalledIsIdempotent ==
    [][\A id \in Names :
          (last'.cmd = "addInstalledComponent" /\ last'.args = <<id>>)
          => /\ Count(diamantJson'.installedComponents, id) = 1
             /\ includes(Installed, id) =>
                    (diamantJson' = diamantJson /\ last'.configWrites = 0)]_vars

\* the second of two calls with the same id has been made
C4_Witness ==
    /\ last.cmd = "addInstalledComponent"
    /\ last.configWrites = 0
    /\ includes(Installed, last.args[1])

\* C5: from an empty installedComponents, after any calls of
\* addInstalledComponent and removeInstalledComponent the list is sorted
\* ascending and holds no entry twice.
C5_InstalledSortedUnique ==
    /\ IsSorted(Installed)
    /\ \A id \in Range(Installed) : Count(Installed, id) = 1

\* an id was added in front of two others, after a removal left a gap
C5_Witness ==
    /\ last.cmd = "addInstalledComponent"
    /\ Len(Installed) >= 3
    /\ Installed[1] = last.args[1]
    /\ last.configWrites = 1

(***************************************************************************)
(* Claims about the commands.                                              *)
(***************************************************************************)
\* C6: from a freshly initialised project, after any add, remove and update
\* commands (any flags, any answers, no file created or deleted from outside,
\* no failing file operation), an id of the registry is in
\* installedComponents if and only if its first file is in the components
\* directory.
C6_ManifestAgreesWithDisk ==
    \A i \in 1..Len(registry) :
        includes(Installed, registry[i].id) <=> fileExists(componentsDir, registry[i].files[1])

\* a remove took button away from under carousel, which stays in both places
C6_Witness ==
    /\ last.cmd = "remove"
    /\ last.deleted = <<"Button.tsx">>
    /\ Installed = <<"carousel">>
    /\ fileExists(componentsDir, "Carousel.tsx")
    /\ ~fileExists(componentsDir, "Button.tsx")

\* the overwrite of an add run was asked for by flag or by answer
Overwriting(call) == call.overwrite \/ (call.asked /\ call.answer)

\* C7: add changes the content of a file that is already on disk only if
\* overwrite was asked for by flag or the confirmation was answered yes;
\* without either, the action set is exactly the resolved ids whose first
\* file is absent, and if there are none no file and no manifest entry changes.
C7_AddKeepsExistingFiles ==
    [][last'.cmd = "add" =>
          /\ \A file \in DOMAIN componentsDir :
                (fileExists(componentsDir, file) /\ componentsDir'[file] # componentsDir[file])
                => Overwriting(last')
          /\ ~Overwriting(last') =>
                /\ last'.actionSet =
                      SelectSeq(last'.resolved,
                                LAMBDA id : ~componentsDir[firstFile(registry, id)].exists)
                /\ last'.actionSet = <<>> =>
                      (componentsDir' = componentsDir /\ diamantJson' = diamantJson)]_vars

\* the confirmation was declined: the new id was copied, the edited file of
\* the existing one was left alone
C7_Witness ==
    /\ last.cmd = "add"
    /\ last.asked /\ ~last.answer
    /\ last.actionSet = <<"carousel">>
    /\ last.resolved = <<"carousel", "button">>
    /\ includes(componentsDir["Button.tsx"].content, LocalLine)

\* the Content Transform as update and diff compute it
ContentTransform(file) ==
    replaceUtilsImport(Template(file),
                       getUtilsImportPath(projectType, diamantJson.aliases.components,
                                          diamantJson.aliases.utils))

\* C8: after add completes successfully every file of every id of its action
\* set is in the components directory with the Content Transform of its
\* template as content, and the id is in installedComponents; from an empty
\* manifest and directory add([dialog], yes) writes exactly one file and
\* leaves installedComponents equal to [dialog].
C8_AddInstallsActionSet ==
    [][(last'.cmd = "add" /\ last'.exit = "ok") =>
          /\ \A id \in Range(last'.actionSet) :
                /\ \A file \in Range(Lookup(registry, id).def.files) :
                      componentsDir'[file] = File(ContentTransform(file))
                /\ includes(diamantJson'.installedComponents, id)
          /\ (/\ Installed = <<>>
              /\ componentsDir = EmptyDir(registry)
              /\ last'.resolved = <<"dialog">>
              /\ last'.yes)
             => /\ last'.written = <<"Dialog.tsx">>
                /\ diamantJson'.installedComponents = <<"dialog">>
                /\ Cardinality({f \in DOMAIN componentsDir : componentsDir'[f].exists}) = 1]_vars

\* add([dialog], yes) has run in an empty project whose imports are rewritten
C8_Witness ==
    /\ last.cmd = "add" /\ last.exit = "ok" /\ last.yes
    /\ last.written = <<"Dialog.tsx">>
    /\ Installed = <<"dialog">>
    /\ {f \in DOMAIN componentsDir : componentsDir[f].exists} = {"Dialog.tsx"}
    /\ componentsDir["Dialog.tsx"].content # Template("Dialog.tsx")

\* C9: add is idempotent under overwrite: a second run of add with the same
\* ids and overwrite enabled leaves every file with the content it had after
\* the first run and installedComponents with the same members, sorted and
\* unique; from an empty manifest the members are exactly the resolved set.
C9_AddOverwriteIsIdempotent ==
    [][(last'.cmd = "add" /\ last'.overwrite /\ last'.exit = "ok") =>
          /\ (/\ last.cmd = "add" /\ last.overwrite /\ last.exit = "ok"
              /\ last.resolved = last'.resolved)
             => /\ componentsDir' = componentsDir
                /\ Range(diamantJson'.installedComponents) = Range(Installed)
                /\ IsSorted(diamantJson'.installedComponents)
          /\ Installed = <<>> =>
                /\ Range(diamantJson'.installedComponents) = Range(last'.resolved)
                /\ IsSorted(diamantJson'.installedComponents)]_vars

\* an overwriting add has rewritten two files whose ids were all installed
C9_Witness ==
    /\ last.cmd = "add" /\ last.overwrite /\ last.exit = "ok"
    /\ last.resolved = <<"carousel", "button">>
    /\ last.written = <<"Carousel.tsx", "Button.tsx">>
    /\ last.configWrites = 0
    /\ Installed = <<"button", "carousel">>

\* C10: during add of a component with M files the id is inserted into the
\* manifest only after all M files are written: if copying file N fails,
\* files 1..N-1 are on disk and this run has not added the id to
\* installedComponents.
C10_ManifestAfterAllFiles ==
    [][(/\ last'.cmd = "add"
        /\ last'.failed # <<>>
        /\ ~includes(last'.written, last'.failed[2]))
       => LET id == last'.failed[1]
              files == Lookup(registry, id).def.files
              N == indexOf(files, last'.failed[2])
          IN /\ \A k \in 1..(N - 1) : fileExists(componentsDir', files[k])
             /\ includes(diamantJson'.installedComponents, id) => includes(Installed, id)]_vars

\* the removal of a remove run went ahead: --yes, or the confirmation was given
Proceeds(call) == call.yes \/ (call.asked /\ call.answer)

\* C11: the dependents warning never blocks remove: when remove goes ahead
\* on installed ids while a component that depends on one of them is in
\* installedComponents, the files and manifest entries of the removed ids
\* are gone, and the files and manifest entry of the dependent are as before.
C11_DependentsWarningDoesNotBlock ==
    [][(last'.cmd = "remove" /\ last'.dependents # <<>> /\ Proceeds(last'))
       => /\ last'.exit = "ok"
          /\ last'.actionSet # <<>>
          /\ \A id \in Range(last'.actionSet) :
                /\ fileExists(componentsDir, firstFile(registry, id))
                /\ \A file \in Range(Lookup(registry, id).def.files) :
                      ~fileExists(componentsDir', file)
                /\ ~includes(diamantJson'.installedComponents, id)
          /\ \A dependent \in Range(last'.dependents) :
                /\ \E id \in Range(last'.actionSet) :
                      includes(Lookup(registry, dependent).def.internalDependencies, id)
                /\ \A file \in Range(Lookup(registry, dependent).def.files) :
                      componentsDir'[file] = componentsDir[file]
                /\ includes(Installed, dependent)
                /\ includes(diamantJson'.installedComponents, dependent)]_vars

\* button was removed under an installed, locally edited carousel, with the
\* warning naming carousel
C11_Witness ==
    /\ last.cmd = "remove" /\ Proceeds(last)
    /\ last.dependents = <<"carousel">>
    /\ last.actionSet = <<"button">>
    /\ last.deleted = <<"Button.tsx">>
    /\ ~includes(Installed, "button")
    /\ includes(Installed, "carousel")
    /\ includes(componentsDir["Carousel.tsx"].content, LocalLine)

\* C12: in remove every requested registry id whose first file is absent
\* from the components directory is reported as not installed and left out
\* of the deletion, also when other requested ids are on disk: none of its
\* files is deleted and its manifest entry, if any, stays.
C12_AbsentIdsReportedAndExcluded ==
    [][(last'.cmd = "remove" /\ diamantJson.state = "json")
       => \A i \in 1..Len(last'.args) :
             LET id == toLowerCase(last'.args[i])
             IN (/\ id \in RegistryIds(registry)
                 /\ ~fileExists(componentsDir, firstFile(registry, id)))
                => /\ includes(last'.notInstalled, id)
                   /\ ~includes(last'.actionSet, id)
                   /\ \A file \in Range(Lookup(registry, id).def.files) :
                         componentsDir'[file] = componentsDir[file]
                   /\ includes(diamantJson'.installedComponents, id)
                         <=> includes(Installed, id)]_vars

\* the ids an update run looks at: its arguments, or the installed list
UpdateListed(call) == IF call.args = <<>> THEN Installed ELSE call.args

\* the listed ids that are in the registry, on disk and presentModified
PresentModified(call) ==
    {id \in {toLowerCase(UpdateListed(call)[i]) : i \in 1..Len(UpdateListed(call))} :
        /\ id \in RegistryIds(registry)
        /\ fileExists(componentsDir, firstFile(registry, id))
        /\ trim(componentsDir[firstFile(registry, id)].content)
              # trim(ContentTransform(firstFile(registry, id)))}

\* C13: update, on its list of ids or (when that is empty) on the
\* installedComponents of the manifest, unless its confirmation is declined,
\* overwrites the files of exactly the ids that are in the registry, have
\* their first file on disk and are presentModified; no other file is written.
C13_UpdateWritesExactlyModified ==
    [][(/\ last'.cmd = "update"
        /\ diamantJson.state = "json"
        /\ ~(last'.asked /\ ~last'.answer))
       => \A file \in DOMAIN componentsDir :
             IF \E id \in PresentModified(last') :
                   includes(Lookup(registry, id).def.files, file)
             THEN /\ includes(last'.written, file)
                  /\ componentsDir'[file] = File(ContentTransform(file))
             ELSE /\ ~includes(last'.written, file)
                  /\ componentsDir'[file] = componentsDir[file]]_vars

\* the comparison of update and of diff finds the id unchanged in a project
Unmodified(id, doc, dir) ==
    LET path == getUtilsImportPath(projectType, doc.aliases.components, doc.aliases.utils)
    IN /\ fileExists(dir, firstFile(registry, id))
       /\ ~hasChanges(registry, dir, path, id)
       /\ showDiff(registry, Start(doc, dir), id, path).status = "upToDate"

\* C14: right after a successful add of an id, and right after a confirmed
\* update of a presentModified id, update and diff classify the id as
\* presentUnmodified; an update that follows without a local edit in between
\* overwrites none of its files.
C14_LifecycleEndsUnmodified ==
    [][/\ (last'.cmd = "add" /\ last'.exit = "ok")
          => \A id \in Range(last'.actionSet) : Unmodified(id, diamantJson', componentsDir')
       /\ (last'.cmd = "update" /\ last'.exit = "ok")
          => \A id \in Range(last'.actionSet) :
                /\ ~Unmodified(id, diamantJson, componentsDir)
                /\ Unmodified(id, diamantJson', componentsDir')
       /\ (last.cmd \in {"add", "update"} /\ last.exit = "ok" /\ last'.cmd = "update")
          => \A id \in Range(last.actionSet) :
                \A file \in Range(Lookup(registry, id).def.files) :
                   /\ ~includes(last'.written, file)
                   /\ componentsDir'[file] = componentsDir[file]]_vars

\* an update has put back the latest version of the edited button
C14_Witness ==
    /\ last.cmd = "update" /\ last.exit = "ok"
    /\ last.actionSet = <<"button">>
    /\ last.written = <<"Button.tsx">>
    /\ componentsDir["Button.tsx"] = File(ContentTransform("Button.tsx"))
    /\ ~includes(componentsDir["Button.tsx"].content, LocalLine)

\* C15: in add, remove and update every requested name that is no id of the
\* registry is warned about under the string as it was given, is in no
\* action set, and the command goes on normally.
C15_UnknownIdsWarnedByOriginalName ==
    [][(last'.cmd \in {"add", "remove", "update"} /\ diamantJson.state = "json")
       => \A i \in 1..Len(last'.args) :
             toLowerCase(last'.args[i]) \notin RegistryIds(registry)
             => /\ includes(last'.warned, last'.args[i])
                /\ ~includes(last'.actionSet, toLowerCase(last'.args[i]))
                /\ last'.exit = "ok"]_vars

\* a command left the project as it found it
Untouched ==
    /\ diamantJson' = diamantJson
    /\ componentsDir' = componentsDir
    /\ last'.written = <<>>
    /\ last'.deleted = <<>>
    /\ last'.configWrites = 0

\* C16: without a manifest document add, remove, update and diff end with a
\* non-zero exit status and write or delete no file, while list completes
\* and shows every component as not installed; a manifest with an empty
\* installedComponents does not lead to that exit.
C16_MissingManifestIsFatalButForList ==
    [][/\ (diamantJson.state = "missing" /\ last'.cmd \in {"add", "remove", "update", "diff"})
          => (last'.exit = "exit1" /\ Untouched)
       /\ (diamantJson.state = "missing" /\ last'.cmd = "list")
          => /\ last'.exit = "ok"
             /\ Untouched
             /\ \A i \in 1..Len(last'.shown) : last'.shown[i].status = "notInstalled"
             /\ Len(last'.shown) \in {0, Len(registry)}
       /\ (diamantJson.state = "json" /\ Installed = <<>> /\ last'.cmd # "none")
          => last'.exit # "exit1"]_vars

\* diff gave up on a project with components on disk and no manifest
C16_Witness ==
    /\ last.cmd = "diff" /\ last.args = <<"button">>
    /\ last.exit = "exit1"
    /\ diamantJson.state = "missing"
    /\ fileExists(componentsDir, "Button.tsx")

\* C17: readConfig returns the manifest only for a document that exists and
\* parses, and then the whole of it; for a missing or unreadable document it
\* returns null, and a command that finds an unreadable document ends as it
\* does on a missing one: add, remove, update and diff exit non-zero with
\* nothing touched, list shows nothing as installed.
C17_InvalidManifestReadsAsMissing ==
    [][/\ readConfig(diamantJson).null <=> diamantJson.state \in {"missing", "invalid"}
       /\ ~readConfig(diamantJson).null => readConfig(diamantJson).config = diamantJson
       /\ (diamantJson.state = "invalid" /\ last'.cmd \in {"add", "remove", "update", "diff"})
          => (last'.exit = "exit1" /\ Untouched)
       /\ (diamantJson.state = "invalid" /\ last'.cmd = "list")
          => /\ last'.exit = "ok"
             /\ Untouched
             /\ \A i \in 1..Len(last'.shown) : last'.shown[i].status = "notInstalled"]_vars

\* add --yes gave up on an unreadable manifest that lists nothing of what is on disk
C17_Witness ==
    /\ last.cmd = "add" /\ last.yes /\ last.args = <<"dialog">>
    /\ last.exit = "exit1"
    /\ diamantJson.state = "invalid"
    /\ ~fileExists(componentsDir, "Dialog.tsx")

\* C18: diff is read-only: with no component, a known component or an unknown
\* one, on any manifest and any components directory, it leaves the manifest
\* document and every file of the components directory as they were.
C18_DiffIsReadOnly ==
    [][last'.cmd = "diff" => Untouched]_vars

\* diff printed the differences of an edited carousel
C18_Witness ==
    /\ last.cmd = "diff" /\ last.args = <<"Carousel">>
    /\ last.shown = <<Shown("carousel", "modified")>>
    /\ includes(componentsDir["Carousel.tsx"].content, LocalLine)

\* C19: resolveComponentDependencies terminates on every request, also over
\* a registry whose internalDependencies have a cycle or a self-dependency,
\* unless a lookup throws; what it returns then holds every requested
\* registry id and every id reachable from one, the members of a cycle
\* included, each once.
C19_ResolveTerminatesOnCycles ==
    (last.cmd = "resolving")
    ~> \/ last.cmd = "threw"
       \/ /\ last.cmd = "resolved"
          /\ Range(last.resolved) = Reachable(registry, KnownRequested(registry, last.args))
          /\ \A id \in Range(last.resolved) : Count(last.resolved, id) = 1

\* the request for alertdialog returned the cycle it leads into
C19_Witness ==
    /\ registry = CyclicRegistry
    /\ last.cmd = "resolved"
    /\ last.args = <<"alertdialog">>
    /\ last.resolved = <<"alertdialog", "button", "carousel">>

\* C20: the sequence resolveComponentDependencies returns holds lowercase
\* ids of the registry only, none twice (also for a request that names a
\* component twice or in another letter case, or components that share a
\* dependency), in the order in which the traversal first visited them: an
\* iteration appends the id it visits or leaves the sequence alone, and the
\* sequence returned is the one the last iteration left.
C20_ResolvedIsOrderedUnique ==
    [][(last.cmd = "resolving" /\ last'.cmd # "threw")
       => /\ \/ last'.resolved = last.resolved
             \/ /\ Len(last.toProcess) > 0
                /\ last'.resolved =
                      Append(last.resolved, toLowerCase(last.toProcess[Len(last.toProcess)]))
          /\ \A i \in 1..Len(last'.resolved) :
                /\ last'.resolved[i] \in RegistryIds(registry)
                /\ toLowerCase(last'.resolved[i]) = last'.resolved[i]
                /\ Count(last'.resolved, last'.resolved[i]) = 1
          /\ last'.cmd = "resolved"
             => /\ last'.resolved = last.resolved
                /\ last'.resolved = resolveComponentDependencies(registry, last.args).value]_vars

\* carousel, asked for in two letter cases together with alertdialog, came
\* back once, before the button both depend on
C20_Witness ==
    /\ registry = Registry
    /\ last.cmd = "resolved"
    /\ last.args = <<"Carousel", "alertdialog", "carousel">>
    /\ last.resolved = <<"carousel", "button", "alertdialog">>

\* the removal set of a remove run: the requested registry ids whose first
\* file was on disk when the command started
RemovalSet(call, dir) ==
    SelectSeq(call.resolved, LAMBDA id : fileExists(dir, firstFile(registry, id)))

\* C21: in remove a component X is named in the dependents warning exactly
\* when X.internalDependencies includes an id of the removal set, X is in
\* the manifest's installedComponents, and X is not in the removal set.
C21_DependentsWarningExactly ==
    [][(last'.cmd = "remove" /\ diamantJson.state = "json" /\ last'.exit = "ok")
       => LET removal == RemovalSet(last', componentsDir)
          IN /\ Range(last'.dependents) \subseteq RegistryIds(registry)
             /\ \A X \in RegistryIds(registry) :
                   includes(last'.dependents, X)
                   <=> /\ \E id \in Range(removal) :
                             includes(Lookup(registry, X).def.internalDependencies, id)
                       /\ includes(Installed, X)
                       /\ ~includes(removal, X)]_vars

\* button and dialog were to be removed, carousel is listed in the manifest
\* and was named in the warning, and the user declined
C21_Witness ==
    /\ last.cmd = "remove" /\ last.asked /\ ~last.answer
    /\ last.args = <<"button", "dialog">>
    /\ last.dependents = <<"carousel">>
    /\ includes(Installed, "carousel")
    /\ fileExists(componentsDir, "Button.tsx")

\* C22: after a remove that goes ahead (confirmed, or --yes), no file of an
\* id of the removal set exists and no such id is in installedComponents,
\* while every other file and every other manifest entry is as before; a
\* declined remove deletes no file and leaves the manifest unchanged.
C22_RemoveDeletesExactlyRemovalSet ==
    [][(last'.cmd = "remove" /\ diamantJson.state = "json" /\ last'.exit = "ok")
       => LET removal == RemovalSet(last', componentsDir)
              removedFiles == UNION {Range(Lookup(registry, id).def.files) :
                                        id \in Range(removal)}
          IN /\ Proceeds(last')
                => /\ last'.actionSet = removal
                   /\ \A file \in removedFiles : ~fileExists(componentsDir', file)
                   /\ \A id \in Range(removal) :
                         ~includes(diamantJson'.installedComponents, id)
                   /\ \A file \in DOMAIN componentsDir \ removedFiles :
                         componentsDir'[file] = componentsDir[file]
                   /\ diamantJson'.installedComponents =
                         SelectSeq(Installed, LAMBDA id : ~includes(removal, id))
                   /\ [diamantJson' EXCEPT !.installedComponents = <<>>]
                         = [diamantJson EXCEPT !.installedComponents = <<>>]
             /\ ~Proceeds(last') => Untouched]_vars

\* remove --yes of button and dialog: both files are gone, the listed
\* carousel and its edited file stay, and so does the entry of dialog's
\* neighbour in the manifest
C22_Witness ==
    /\ last.cmd = "remove" /\ last.yes
    /\ last.actionSet = <<"button", "dialog">>
    /\ last.deleted = <<"Button.tsx", "Dialog.tsx">>
    /\ last.configWrites = 2
    /\ Installed = <<"carousel">>
    /\ includes(componentsDir["Carousel.tsx"].content, LocalLine)

\* C23: when the copy of a file fails for some component during add, the
\* command ends with a non-zero exit status; no file of a later component of
\* the action set is written and no later id is added to the manifest, while
\* the files and manifest entries of the components processed before the
\* failure stay as add wrote them.
C23_AddAbortsAtFirstFailure ==
    [][(last'.cmd = "add" /\ last'.failed # <<>>)
       => LET toAdd == last'.actionSet
              N == indexOf(toAdd, last'.failed[1])
          IN /\ last'.exit = "exit1"
             /\ N > 0
             /\ \A j \in (N + 1)..Len(toAdd) :
                   /\ \A file \in Range(Lookup(registry, toAdd[j]).def.files) :
                         /\ componentsDir'[file] = componentsDir[file]
                         /\ ~includes(last'.written, file)
                   /\ includes(diamantJson'.installedComponents, toAdd[j])
                         <=> includes(Installed, toAdd[j])
             /\ \A j \in 1..(N - 1) :
                   /\ \A file \in Range(Lookup(registry, toAdd[j]).def.files) :
                         /\ componentsDir'[file] = File(ContentTransform(file))
                         /\ includes(last'.written, file)
                   /\ includes(diamantJson'.installedComponents, toAdd[j])]_vars

\* add --all --yes on an empty project failed at the second of its three
\* components: the first is on disk and in the manifest, the third is not
C23_Witness ==
    /\ last.cmd = "add" /\ Len(last.actionSet) = 3
    /\ last.failed # <<>> /\ last.failed[1] = last.actionSet[2]
    /\ last.exit = "exit1"
    /\ fileExists(componentsDir, firstFile(registry, last.actionSet[1]))
    /\ includes(Installed, last.actionSet[1])
    /\ ~fileExists(componentsDir, firstFile(registry, last.actionSet[3]))
    /\ ~includes(Installed, last.actionSet[3])

\* C24: diff without a component argument shows, for every id of
\* installedComponents, exactly one status line, and the status is missing,
\* up to date or modified; no installed id is left without a status and no
\* other status is shown.
C24_DiffSummaryCoversInstalled ==
    [][(last'.cmd = "diff" /\ last'.args = <<>> /\ diamantJson.state = "json")
       => /\ \A id \in Range(Installed) :
                Cardinality({i \in 1..Len(last'.shown) : last'.shown[i].id = id}) = 1
          /\ \A i \in 1..Len(last'.shown) :
                /\ includes(Installed, last'.shown[i].id)
                /\ last'.shown[i].status \in {"missing", "upToDate", "modified"}]_vars

\* both invocations of the race have left their copy loops
AllDone(call) == call.cmd = "race" /\ \A p \in 1..2 : call.procs[p].pc = "done"

\* the project after the two invocations of the race run one after the other
Sequential(call) ==
    LET first == addRun(registry, call.procs[1].config, EmptyDir(registry), projectType,
                        call.procs[1].components, Options(FALSE, TRUE, TRUE), FALSE, <<>>, 0)
    IN addRun(registry, first.doc, first.dir, projectType,
              call.procs[2].components, Options(FALSE, TRUE, TRUE), FALSE, <<>>, 0)

\* C25: two concurrent add invocations for different components interleave
\* their manifest read-modify-write without a lock: each write stores the
\* list the invocation read with its id added, whatever was written in
\* between, so the later write wins and the final installedComponents can
\* lack an id whose file is on disk; the files end as after running the two
\* one after the other, and no id is listed that a sequential run would not list.
C25_ConcurrentAddLosesManifestEntry ==
    [][/\ \A p \in 1..2 :
             (last.cmd = "race" /\ last.procs[p].pc = "write" /\ last'.procs[p].pc # "write")
             => LET name == Head(last.procs[p].work).name
                    read == last.procs[p].read
                IN diamantJson' =
                      IF includes(read.installedComponents, name) THEN diamantJson
                      ELSE [read EXCEPT !.installedComponents = sort(Append(@, name))]
       /\ AllDone(last')
          => /\ componentsDir' = Sequential(last').dir
             /\ Range(diamantJson'.installedComponents)
                   \subseteq Range(Sequential(last').doc.installedComponents)]_vars

\* add button and add dialog ran at once on an empty project: both files are
\* on disk and the manifest lists dialog only
C25_Witness ==
    /\ AllDone(last)
    /\ last.procs[1].components = <<"button">>
    /\ last.procs[2].components = <<"dialog">>
    /\ fileExists(componentsDir, "Button.tsx")
    /\ fileExists(componentsDir, "Dialog.tsx")
    /\ Installed = <<"dialog">>
    /\ Sequential(last).doc.installedComponents = <<"button", "dialog">>

\* C26: add tells existing from new by the presence of the first file on
\* disk alone, never by the manifest: a resolved id whose first file is
\* absent is copied and listed, also when the manifest listed it already; a
\* resolved id whose first file is present is existing, also when the
\* manifest does not list it: the confirmation is asked for it, and without
\* overwrite its files and its manifest entry stay as they were.
C26_ExistingIsDecidedByDisk ==
    [][(last'.cmd = "add" /\ diamantJson.state = "json" /\ last'.exit = "ok")
       => LET present(id) == fileExists(componentsDir, firstFile(registry, id))
          IN /\ last'.asked <=> /\ \E id \in Range(last'.resolved) : present(id)
                                /\ ~last'.yes /\ ~last'.overwrite
             /\ \A id \in Range(last'.resolved) :
                   /\ ~present(id)
                      => /\ includes(last'.actionSet, id)
                         /\ \A file \in Range(Lookup(registry, id).def.files) :
                               /\ includes(last'.written, file)
                               /\ componentsDir'[file] = File(ContentTransform(file))
                         /\ includes(diamantJson'.installedComponents, id)
                   /\ (present(id) /\ ~Overwriting(last'))
                      => /\ ~includes(last'.actionSet, id)
                         /\ \A file \in Range(Lookup(registry, id).def.files) :
                               componentsDir'[file] = componentsDir[file]
                         /\ includes(diamantJson'.installedComponents, id)
                               <=> includes(Installed, id)]_vars

\* add Carousel, overwrite declined: the listed carousel had no file and was
\* copied, the unlisted button had an edited file and was left alone
C26_Witness ==
    /\ last.cmd = "add" /\ last.args = <<"Carousel">>
    /\ last.asked /\ ~last.answer
    /\ last.actionSet = <<"carousel">>
    /\ last.written = <<"Carousel.tsx">>
    /\ last.configWrites = 0
    /\ includes(Installed, "carousel")
    /\ ~includes(Installed, "button")
    /\ includes(componentsDir["Button.tsx"].content, LocalLine)

\* C27: update never writes the manifest: the manifest document, and with it
\* installedComponents, is the same before and after every update run, also
\* when update overwrites the file of a component that is on disk and not
\* listed in the manifest.
C27_UpdateLeavesManifest ==
    [][last'.cmd = "update"
       => /\ diamantJson' = diamantJson
          /\ last'.configWrites = 0]_vars

\* update --yes button rewrote an edited Button.tsx while the manifest does
\* not list button
C27_Witness ==
    /\ last.cmd = "update" /\ last.yes /\ last.args = <<"button">>
    /\ last.written = <<"Button.tsx">>
    /\ diamantJson.state = "json"
    /\ ~includes(Installed, "button")
    /\ ~includes(componentsDir["Button.tsx"].content, LocalLine)

\* the first file of the id is on disk and equals the transformed template,
\* leading and trailing blank lines aside
FirstFileMatches(id) ==
    /\ fileExists(componentsDir, firstFile(registry, id))
    /\ trim(componentsDir[firstFile(registry, id)].content)
          = trim(ContentTransform(firstFile(registry, id)))

\* a later file of the id is missing or differs from its transformed template
LaterFileDiffers(id) ==
    \E k \in 2..Len(Lookup(registry, id).def.files) :
        LET file == Lookup(registry, id).def.files[k]
        IN \/ ~fileExists(componentsDir, file)
           \/ trim(componentsDir[file].content) # trim(ContentTransform(file))

\* C28: update and diff classify a component by its first file alone: a
\* component whose first file equals the transformed template is up to date
\* for diff, with and without a component argument, and update rewrites none
\* of its files, even when another of its files differs from its template or
\* is missing; a component whose first file differs is modified, and an
\* update that goes ahead rewrites it.
C28_FirstFileDecides ==
    [][/\ (last'.cmd = "update" /\ last'.exit = "ok")
          => \A i \in 1..Len(UpdateListed(last')) :
                LET id == toLowerCase(UpdateListed(last')[i])
                IN id \in RegistryIds(registry)
                   => /\ FirstFileMatches(id)
                         => /\ ~includes(last'.actionSet, id)
                            /\ \A file \in Range(Lookup(registry, id).def.files) :
                                  /\ componentsDir'[file] = componentsDir[file]
                                  /\ ~includes(last'.written, file)
                      /\ (/\ fileExists(componentsDir, firstFile(registry, id))
                          /\ ~FirstFileMatches(id)
                          /\ Proceeds(last'))
                         => includes(last'.actionSet, id)
       /\ (last'.cmd = "diff" /\ last'.exit = "ok")
          => \A i \in 1..Len(last'.shown) :
                LET id == last'.shown[i].id
                IN (id \in RegistryIds(registry)
                    /\ fileExists(componentsDir, firstFile(registry, id)))
                   => last'.shown[i].status
                         = IF FirstFileMatches(id) THEN "upToDate" ELSE "modified"]_vars

\* update --yes combobox found nothing to update: Combobox.tsx is as add
\* wrote it, while ComboboxItem.tsx is missing
C28_Witness ==
    /\ last.cmd = "update" /\ last.yes /\ last.args = <<"combobox">>
    /\ last.exit = "ok"
    /\ last.actionSet = <<>> /\ last.written = <<>>
    /\ FirstFileMatches("combobox")
    /\ LaterFileDiffers("combobox")
    /\ ~fileExists(componentsDir, "ComboboxItem.tsx")

\* C29: whenever init runs to its end, the manifest it writes has an empty
\* installedComponents, also when it is run again, the overwrite confirmed,
\* on a project whose manifest listed components whose files are on disk:
\* the files stay, and the manifest no longer lists them.
C29_InitWritesEmptyInstalled ==
    [][(last'.cmd = "init" /\ last'.exit = "ok" /\ (last'.asked => last'.answer))
       => /\ last'.configWrites = 1
          /\ diamantJson'.state = "json"
          /\ diamantJson'.hasInstalledComponents
          /\ diamantJson'.installedComponents = <<>>
          /\ componentsDir' = componentsDir]_vars

\* init was run again and the overwrite confirmed: the manifest lists
\* nothing, while the files of carousel and button, written by add, are on disk
C29_Witness ==
    /\ last.cmd = "init" /\ last.asked /\ last.answer
    /\ last.configWrites = 1
    /\ Installed = <<>>
    /\ fileExists(componentsDir, "Carousel.tsx")
    /\ fileExists(componentsDir, "Button.tsx")

\* C30: every command treats a manifest document without an
\* installedComponents field as one with an empty installed list: no command
\* fails on it, and add copies the files of its action set, records the ids
\* in installedComponents and exits successfully.
C30_MissingFieldReadsAsEmpty ==
    [][(/\ last'.cmd # "none"
        /\ diamantJson.state = "json" /\ ~diamantJson.hasInstalledComponents
        /\ \A i \in 1..Len(last'.args) :
              toLowerCase(last'.args[i]) \notin ObjectPrototypeKeys)
       => /\ last'.exit = "ok"
          /\ last'.failed = <<>>
          /\ last'.cmd = "add"
             => \A id \in Range(last'.actionSet) :
                   /\ \A file \in Range(Lookup(registry, id).def.files) :
                         componentsDir'[file] = File(ContentTransform(file))
                   /\ diamantJson'.hasInstalledComponents
                   /\ includes(diamantJson'.installedComponents, id)]_vars

====
